---- MODULE Spec2Model ----
(***************************************************************************)
(* OCR weight extraction of recepcion-app: OCRService.process_image and    *)
(* the adapters, parser, validator and log sink it sequences               *)
(* (apps/api/src/app/services/ocr_service.py).                             *)
(*                                                                         *)
(* Conventions.  Python None is the empty tuple <<>>; an optional string   *)
(* s is <<s>>.  A float is the exact rational <<num, den>> in lowest       *)
(* terms (the texts and token counts of the model are short enough that    *)
(* no comparison of the code is decided by binary rounding; the one place  *)
(* where it is, round(x, 2) on a decimal tie, is a nondeterministic        *)
(* choice).  A text is a tuple of one-character strings.  A dict is a      *)
(* record, and setting a new key widens the record.                        *)
(***************************************************************************)
EXTENDS Integers, Sequences, FiniteSets, TLC

VARIABLES
    vision_client,      \* self.vision_client is usable (set by __init__)
    db,                 \* db.session: [committed, pending] rows of ocr_processing_logs
    clock,              \* time.time(), in ticks of 1/TicksPerMs ms
    pc,                 \* position of the running invocation in process_image
    image_url,          \* argument
    registration_id,    \* argument (None when omitted)
    start_time,         \* local start_time
    image,              \* local image
    processed_image,    \* local processed_image
    tesseract_result,   \* the dict returned by _extract_with_tesseract
    vision_result,      \* the dict returned by _extract_with_google_vision
    result,             \* which of the two dicts the local `result` refers to
    exc,                \* the exception caught at line 100
    outcome,            \* the dict process_image returned
    ocr_text,           \* argument of _extract_weight_from_text called on its own
    parsed_weight,      \* what that call returned
    inv,                \* locals of each of the concurrent invocations, by thread
    sessions,           \* pending rows of each db.session the threads use
    requests,           \* InMemoryRateLimiter.requests: the timestamps kept per key
    weight_arg,         \* argument of _validate_weight_value called on its own
    validations,        \* what that call, and the call on its own result, returned
    hough_lines,        \* what cv2.HoughLines returned to correct_rotation called on its own
    rotation_out,       \* what that call returned
    hist                \* observations of the running invocation (not program state)

\* what only the operations called on their own touch
extra_vars == <<weight_arg, validations, hough_lines, rotation_out>>

vars == <<vision_client, db, clock, pc, image_url, registration_id,
          start_time, image, processed_image, tesseract_result, vision_result,
          result, exc, outcome, ocr_text, parsed_weight, inv, sessions, requests,
          extra_vars, hist>>

\* what process_image, called once, does not touch
other_vars == <<ocr_text, parsed_weight, inv, sessions, requests, extra_vars>>

-----------------------------------------------------------------------------
(* Bounds of the model *)

MaxTokens == 2
TicksPerMs == 2
MaxStageTicks == 1
MaxWords == 3
MaxClock == 2
MaxCalls == 4
MaxMilli == 150
MaxRun == 4

None == <<>>

-----------------------------------------------------------------------------
(* Exact arithmetic on the floats of the code *)

RECURSIVE Gcd(_, _)
Gcd(a, b) == IF b = 0 THEN a ELSE Gcd(b, a % b)

Rat(n, d) == LET g == Gcd(IF n < 0 THEN -n ELSE n, d) IN <<n \div g, d \div g>>

RatLeq(a, b) == a[1] * b[2] <= b[1] * a[2]

RatLt(a, b) == a[1] * b[2] < b[1] * a[2]

RatDiv(a, k) == Rat(a[1], a[2] * k)

Zero == Rat(0, 1)

One == Rat(1, 1)

RECURSIVE SumSeq(_)
SumSeq(s) == IF s = <<>> THEN 0 ELSE Head(s) + SumSeq(Tail(s))

RECURSIVE Pow10(_)
Pow10(k) == IF k = 0 THEN 1 ELSE 10 * Pow10(k - 1)

-----------------------------------------------------------------------------
(* Characters and texts *)

Digits == <<"0", "1", "2", "3", "4", "5", "6", "7", "8", "9">>

UpperCase == <<"A", "B", "C", "D", "E", "F", "G", "H", "I", "J", "K", "L", "M",
               "N", "O", "P", "Q", "R", "S", "T", "U", "V", "W", "X", "Y", "Z">>

LowerCase == <<"a", "b", "c", "d", "e", "f", "g", "h", "i", "j", "k", "l", "m",
               "n", "o", "p", "q", "r", "s", "t", "u", "v", "w", "x", "y", "z">>

Range(s) == {s[i] : i \in DOMAIN s}

IsDigit(c) == c \in Range(Digits)

IsSpace(c) == c \in {" ", "\t", "\n", "\r"}

IsWord(c) == c \in Range(Digits) \cup Range(UpperCase) \cup Range(LowerCase) \cup {"_"}

DigitVal(c) == (CHOOSE i \in DOMAIN Digits : Digits[i] = c) - 1

LowerChar(c) ==
    IF c \in Range(UpperCase)
    THEN LowerCase[CHOOSE i \in DOMAIN UpperCase : UpperCase[i] = c]
    ELSE c

\* mutant: the case is kept
Lower_KeepsCase(t) == t

\* str.lower()
RECURSIVE Lower(_)
Lower(t) == IF t = <<>> THEN <<>> ELSE <<LowerChar(Head(t))>> \o Lower(Tail(t))

\* str.replace(',', '.')
RECURSIVE ReplaceComma(_)
ReplaceComma(t) ==
    IF t = <<>> THEN <<>>
    ELSE <<IF Head(t) = "," THEN "." ELSE Head(t)>> \o ReplaceComma(Tail(t))

\* str.strip()
RECURSIVE LStrip(_)
LStrip(t) == IF t # <<>> /\ IsSpace(Head(t)) THEN LStrip(Tail(t)) ELSE t

RECURSIVE RStrip(_)
RStrip(t) ==
    IF t # <<>> /\ IsSpace(t[Len(t)]) THEN RStrip(SubSeq(t, 1, Len(t) - 1)) ELSE t

Strip(t) == RStrip(LStrip(t))

\* t[i .. i + Len(lit) - 1] = lit
HasAt(t, i, lit) ==
    /\ i + Len(lit) - 1 <= Len(t)
    /\ \A j \in DOMAIN lit : t[i + j - 1] = lit[j]

\* `lit in t` of Python
Contains(t, lit) == \E i \in 1..Len(t) : HasAt(t, i, lit)

-----------------------------------------------------------------------------
(* OCRService._extract_weight_from_text *)

\* end (exclusive) of the run of digits that starts at i
RECURSIVE DigitsEnd(_, _)
DigitsEnd(t, i) == IF i <= Len(t) /\ IsDigit(t[i]) THEN DigitsEnd(t, i + 1) ELSE i

\* end (exclusive) of the greedy match of \d+\.?\d* at i, where t[i] is a digit
NumberEnd(t, i) ==
    LET a == DigitsEnd(t, i)
    IN  IF a <= Len(t) /\ t[a] = "." THEN DigitsEnd(t, a + 1) ELSE a

\* end (exclusive) of the greedy match of \s* at i
RECURSIVE SkipSpace(_, _)
SkipSpace(t, i) == IF i <= Len(t) /\ IsSpace(t[i]) THEN SkipSpace(t, i + 1) ELSE i

RECURSIVE DigitsValue(_)
DigitsValue(s) ==
    IF s = <<>> THEN 0
    ELSE 10 * DigitsValue(SubSeq(s, 1, Len(s) - 1)) + DigitVal(s[Len(s)])

\* float(g) for a group g matched by \d+\.?\d*
ParseFloat(g) ==
    LET a  == DigitsEnd(g, 1)
        ip == SubSeq(g, 1, a - 1)
        fp == SubSeq(g, a + 1, Len(g))
    IN  Rat(DigitsValue(ip) * Pow10(Len(fp)) + DigitsValue(fp), Pow10(Len(fp)))

\* The five patterns of weight_patterns, in order.  A "unit" pattern is
\* (\d+\.?\d*)\s*<lit>, a "label" pattern is <lit>\s*:?\s*(\d+\.?\d*); lit
\* holds every letter of the pattern's source.
weight_patterns == <<
    [anchor |-> "unit",  lit |-> <<"k", "g">>],
    [anchor |-> "unit",  lit |-> <<"k">>],
    [anchor |-> "unit",  lit |-> <<"g">>],
    [anchor |-> "label", lit |-> <<"p", "e", "s", "o">>],
    [anchor |-> "label", lit |-> <<"w", "e", "i", "g", "h", "t">>] >>

\* where the group of a label pattern matched at i starts (0: no match at i)
LabelGroupStart(t, i, lit) ==
    IF ~HasAt(t, i, lit) THEN 0
    ELSE LET s1 == SkipSpace(t, i + Len(lit))
             s2 == IF s1 <= Len(t) /\ t[s1] = ":" THEN s1 + 1 ELSE s1
             s3 == SkipSpace(t, s2)
         IN  IF s3 <= Len(t) /\ IsDigit(t[s3]) THEN s3 ELSE 0

\* where the group of pattern p matched at i starts (0: no match at i).  Only
\* the greedy parse of the group can be followed by \s*<lit>, so backtracking
\* never finds another match.
GroupStart(t, i, p) ==
    IF p.anchor = "unit"
    THEN IF IsDigit(t[i]) /\ HasAt(t, SkipSpace(t, NumberEnd(t, i)), p.lit) THEN i ELSE 0
    ELSE LabelGroupStart(t, i, p.lit)

\* re.findall(pattern, text)[0], or None when findall returns []
FirstMatch(t, p) ==
    LET starts == {i \in 1..Len(t) : GroupStart(t, i, p) # 0}
    IN  IF starts = {} THEN None
        ELSE LET i == CHOOSE x \in starts : \A y \in starts : x <= y
                 s == GroupStart(t, i, p)
             IN  SubSeq(t, s, NumberEnd(t, s) - 1)

\* where the match of pattern p whose group starts at s ends (exclusive)
MatchEnd(t, s, p) ==
    IF p.anchor = "unit"
    THEN SkipSpace(t, NumberEnd(t, s)) + Len(p.lit)
    ELSE NumberEnd(t, s)

\* re.findall(pattern, text) from position pos on: the groups of the
\* non-overlapping matches, left to right
RECURSIVE FindAll(_, _, _)
FindAll(t, p, pos) ==
    IF pos > Len(t) THEN <<>>
    ELSE LET s == GroupStart(t, pos, p)
         IN  IF s = 0 THEN FindAll(t, p, pos + 1)
             ELSE <<SubSeq(t, s, NumberEnd(t, s) - 1)>> \o FindAll(t, p, MatchEnd(t, s, p))

\* 'g' in pattern and 'kg' not in pattern
IsGramPattern(p) == Contains(p.lit, <<"g">>) /\ ~Contains(p.lit, <<"k", "g">>)

\* mutant: no upper limit
InPlausibleRange_NoUpperLimit(w) == RatLeq(Rat(1, 10), w)

\* 0.1 <= weight <= 50.0 of the parser
InPlausibleRange(w) == RatLeq(Rat(1, 10), w) /\ RatLeq(w, Rat(50, 1))

\* the candidate of pattern p: float(matches[0]), in kilograms for a gram pattern
Candidate(t, p) ==
    LET g == FirstMatch(t, p)
    IN  IF g = None THEN None
        ELSE IF IsGramPattern(p) THEN RatDiv(ParseFloat(g), 1000) ELSE ParseFloat(g)

\* mutant: the first pattern that matches decides, in range or not
Tier1_FirstMatchDecides(t, k) ==
    LET ks == {j \in k..Len(weight_patterns) : Candidate(t, weight_patterns[j]) # None}
    IN  IF ks = {} THEN None
        ELSE LET w == Candidate(t, weight_patterns[CHOOSE j \in ks : \A i \in ks : j <= i])
             IN  IF InPlausibleRange(w) THEN w ELSE None

\* the loop over weight_patterns from pattern k on
RECURSIVE Tier1(_, _)
Tier1(t, k) ==
    IF k > Len(weight_patterns) THEN None
    ELSE LET w == Candidate(t, weight_patterns[k])
         IN  IF w # None /\ InPlausibleRange(w) THEN w ELSE Tier1(t, k + 1)

\* \b between t[k-1] and t[k]
WordBoundary(t, k) ==
    (k > 1 /\ IsWord(t[k - 1])) # (k <= Len(t) /\ IsWord(t[k]))

\* end (exclusive) of the match of \b(\d+\.?\d*)\b at i (0: no match at i);
\* backtracking gives the group up from its greedy end one character at a time
NumberMatchEnd(t, i) ==
    IF ~(IsDigit(t[i]) /\ WordBoundary(t, i)) THEN 0
    ELSE LET ends == {e \in (i + 1)..NumberEnd(t, i) : WordBoundary(t, e)}
         IN  IF ends = {} THEN 0 ELSE CHOOSE x \in ends : \A y \in ends : y <= x

\* re.findall(number_pattern, text) from position pos on
RECURSIVE FindNumbers(_, _)
FindNumbers(t, pos) ==
    IF pos > Len(t) THEN <<>>
    ELSE LET e == NumberMatchEnd(t, pos)
         IN  IF e = 0 THEN FindNumbers(t, pos + 1)
             ELSE <<SubSeq(t, pos, e - 1)>> \o FindNumbers(t, e)

\* the loop over numbers
RECURSIVE Tier2(_)
Tier2(numbers) ==
    IF numbers = <<>> THEN None
    ELSE LET num == ParseFloat(Head(numbers))
         IN  IF InPlausibleRange(num) THEN num ELSE Tier2(Tail(numbers))

ExtractWeightFromText(text) ==
    LET t  == ReplaceComma(Lower(text))
        w1 == Tier1(t, 1)
    IN  IF w1 # None THEN w1 ELSE Tier2(FindNumbers(t, 1))

-----------------------------------------------------------------------------
(* OCRService._validate_weight_value *)

RECURSIVE IsPowerOfTwo(_)
IsPowerOfTwo(d) == d = 1 \/ (d % 2 = 0 /\ IsPowerOfTwo(d \div 2))

\* mutant: round(w, 1)
Round2_OneDecimal(w) ==
    LET q == (10 * w[1]) \div w[2]
        r == (10 * w[1]) % w[2]
    IN  IF 2 * r < w[2] THEN {Rat(q, 10)} ELSE {Rat(q + 1, 10)}

\* round(w, 2): the nearest multiple of 0.01.  On a decimal tie a float that
\* is exact in binary goes to the even neighbour; any other float lies just
\* above or just below the tie, so either neighbour can result.
Round2(w) ==
    LET q == (100 * w[1]) \div w[2]
        r == (100 * w[1]) % w[2]
    IN  IF 2 * r < w[2] THEN {Rat(q, 100)}
        ELSE IF 2 * r > w[2] THEN {Rat(q + 1, 100)}
        ELSE IF IsPowerOfTwo(w[2]) THEN {Rat(IF q % 2 = 0 THEN q ELSE q + 1, 100)}
        ELSE {Rat(q, 100), Rat(q + 1, 100)}

\* mutant: round(weight * 100), never divided back by 100
ValidateWeightValue_Unscaled(weight) ==
    IF RatLeq(Rat(1, 10), weight) /\ RatLeq(weight, Rat(50, 1))
    THEN {Rat(100 * r[1], r[2]) : r \in Round2(weight)}
    ELSE {None}

\* the values _validate_weight_value(weight) can return
ValidateWeightValue(weight) ==
    IF RatLeq(Rat(1, 10), weight) /\ RatLeq(weight, Rat(50, 1))
    THEN Round2(weight)
    ELSE {None}

-----------------------------------------------------------------------------
(* Dicts *)

\* d[key] = val on a dict
SetKey(d, key, val) == [k \in DOMAIN d \cup {key} |-> IF k = key THEN val ELSE d[k]]

-----------------------------------------------------------------------------
(* OCRService._download_image *)

ImageUrls == {[scheme |-> "file", path |-> "/uploads/label.png"],
              [scheme |-> "https", path |-> "res.cloudinary.com/label.jpg"]}

\* the image each URL serves: a grayscale PNG, a colour JPEG
ImageAt(url) ==
    [source |-> url, mode |-> IF url.scheme = "file" THEN "L" ELSE "RGB",
     obj |-> "image", stages |-> <<>>]

\* what can go wrong on each branch
LoadErrors(url) ==
    IF url.scheme = "file"
    THEN {"FileNotFoundError", "UnidentifiedImageError"}
    ELSE {"ConnectionError", "Timeout", "HTTPError", "UnidentifiedImageError"}

\* the ValueError of line 136
LoadFailure(url, e) == <<"Failed to load image from ", url, ": ", e>>

\* the ways _download_image(url) can end: an image, or the ValueError raised
DownloadImage(url) ==
    {[raised |-> FALSE, value |-> ImageAt(url)]}
    \cup {[raised |-> TRUE, value |-> LoadFailure(url, e)] : e \in LoadErrors(url)}

-----------------------------------------------------------------------------
(* app.utils.image_processing.preprocess_image_for_ocr *)

Stages == <<"enhance_contrast", "adjust_brightness", "correct_rotation",
            "reduce_noise", "sharpen_image">>

\* what can fail in one run: any of the stages, and the conversions around them
StageFaults == SUBSET (Range(Stages) \cup {"convert"})

\* the runs of the conditioner an invocation of process_image is followed
\* through: no failure, one failing stage, every stage failing, the
\* conversion failing
PipelineFaults == {{}, {"correct_rotation"}, Range(Stages), {"convert"}}

\* PIL modes of the images a PNG or JPEG decodes to: 8-bit grayscale, palette
\* colour, grayscale with alpha, colour, colour with alpha
Modes == {"L", "P", "LA", "RGB", "RGBA"}

\* the images the conditioner is applied to on its own
SampleImages ==
    {[source |-> "upload", mode |-> m, obj |-> "image", stages |-> <<>>] : m \in Modes}

\* np.array(image).shape: a 2-d array (one plane: the luma of L, the palette
\* indices of P), or a 3-d array with one plane per band
Planes(mode) ==
    CASE mode = "L" -> 1
      [] mode = "P" -> 1
      [] mode = "LA" -> 2
      [] mode = "RGB" -> 3
      [] mode = "RGBA" -> 4

\* lines 26-28: a 3-d array goes through cv2.cvtColor(RGB2BGR), which takes 3
\* or 4 planes, gives 3, and raises on any other number
ToArray(img) ==
    LET n == Planes(img.mode)
    IN  IF n = 1 THEN [raised |-> FALSE, planes |-> 1, stages |-> img.stages]
        ELSE IF n \in {3, 4} THEN [raised |-> FALSE, planes |-> 3, stages |-> img.stages]
        ELSE [raised |-> TRUE]

\* lines 38-41: Image.fromarray of a 2-d array is an L image, of a 3-plane
\* array an RGB image
FromArray(arr, img) ==
    [source |-> img.source, mode |-> IF arr.planes = 1 THEN "L" ELSE "RGB",
     obj |-> "processed_image", stages |-> arr.stages]

\* mutant: a failing stage hands on an array without the earlier stages' work
RunStage_FailureResets(img, stage, faults) ==
    IF stage \in faults THEN [img EXCEPT !.stages = <<>>]
    ELSE [img EXCEPT !.stages = Append(@, stage)]

\* one stage: its result, or on failure the image it was given
RunStage(img, stage, faults) ==
    IF stage \in faults THEN img ELSE [img EXCEPT !.stages = Append(@, stage)]

RECURSIVE RunStages(_, _, _)
RunStages(img, k, faults) ==
    IF k > Len(Stages) THEN img
    ELSE RunStages(RunStage(img, Stages[k], faults), k + 1, faults)

\* the calls of lines 31-35 from stage k on: each stage with the array it was
\* given and the array it returned
RECURSIVE StageCalls(_, _, _)
StageCalls(img, k, faults) ==
    IF k > Len(Stages) THEN <<>>
    ELSE LET out == RunStage(img, Stages[k], faults)
         IN  <<[stage |-> Stages[k], given |-> img, returned |-> out]>>
             \o StageCalls(out, k + 1, faults)

\* whether lines 26-28 raise: the fault "convert" (the data cannot be
\* decoded), or an array cvtColor does not take
ConversionFails(img, faults) == "convert" \in faults \/ ToArray(img).raised

\* the outer except of line 43 returns the image itself
PreprocessImageForOcr(img, faults) ==
    IF ConversionFails(img, faults) THEN img
    ELSE FromArray(RunStages(ToArray(img), 1, faults), img)

-----------------------------------------------------------------------------
(* OCRService._extract_with_tesseract *)

SampleTexts == {
    <<"P", "E", "S", "O", ":", " ", "2", ".", "5", " ", "k", "g">>,
    <<"2", ",", "5", " ", "k", "g", "\n">>,
    <<"2", "5", "0", "0", " ", "g">>,
    <<"7", "5", " ", "k", "g">>,
    <<"1", "2", ".", "3", "4", "5", " ", "k", "g">>,
    <<"L", "o", "t", "e", " ", "1", "2">>,
    <<>> }

\* per-token confidences reported by Tesseract: -1 for a box without text,
\* else 0..100
ConfValues == {-1, 0, 40, 100}

ConfLists == UNION {[1..n -> ConfValues] : n \in 0..MaxTokens}

\* what pytesseract can do: raise, or give a text and the token confidences
TesseractOutputs ==
    {[raised |-> TRUE]}
    \cup {[raised |-> FALSE, text |-> t, conf |-> c] : t \in SampleTexts, c \in ConfLists}

\* mutant: the mean is not divided by 100
AverageConfidence_Unscaled(conf) ==
    LET confidences == SelectSeq(conf, LAMBDA c : c > 0)
    IN  IF confidences # <<>>
        THEN Rat(SumSeq(confidences), Len(confidences))
        ELSE Zero

\* lines 162-163
AverageConfidence(conf) ==
    LET confidences == SelectSeq(conf, LAMBDA c : c > 0)
    IN  IF confidences # <<>>
        THEN Rat(SumSeq(confidences), Len(confidences) * 100)
        ELSE Zero

EmptyResult(engine) ==
    [extracted_text |-> <<>>, extracted_weight |-> None,
     confidence_score |-> Zero, ocr_engine |-> engine]

\* mutant: a failure of the engine is tagged "error"
ExtractWithTesseract_ErrorTag(out) ==
    IF out.raised THEN EmptyResult("error")
    ELSE [extracted_text |-> Strip(out.text),
          extracted_weight |-> ExtractWeightFromText(out.text),
          confidence_score |-> AverageConfidence(out.conf),
          ocr_engine |-> "tesseract"]

ExtractWithTesseract(out) ==
    IF out.raised THEN EmptyResult("tesseract")
    ELSE [extracted_text |-> Strip(out.text),
          extracted_weight |-> ExtractWeightFromText(out.text),
          confidence_score |-> AverageConfidence(out.conf),
          ocr_engine |-> "tesseract"]

\* each output of the engine with the adapter's return value for it
TesseractReturns == {<<out, ExtractWithTesseract(out)>> : out \in TesseractOutputs}

-----------------------------------------------------------------------------
(* OCRService._extract_with_google_vision *)

\* what the remote call can do: raise, report an error in the response, or
\* answer with a list of text annotations
VisionResponses ==
    {[kind |-> "raised"], [kind |-> "error"], [kind |-> "ok", texts |-> <<>>]}
    \cup {[kind |-> "ok", texts |-> <<t>>] : t \in SampleTexts}
    \cup {[kind |-> "ok", texts |-> <<t, <<"k", "g">>>>] : t \in SampleTexts}

\* mutant: the remote call is made whatever the client
CallsRemote_Always(client) == TRUE

\* whether the adapter reaches the remote call (line 205)
CallsRemote(client) == client

\* mutant: a failed remote call still reports the fixed confidence
ExtractWithGoogleVision_FailureConfident(client, resp) ==
    IF ~client THEN EmptyResult("google_vision")
    ELSE IF resp.kind # "ok"
         THEN [EmptyResult("google_vision") EXCEPT !.confidence_score = Rat(85, 100)]
    ELSE IF resp.texts # <<>>
         THEN [extracted_text |-> Strip(resp.texts[1]),
               extracted_weight |-> ExtractWeightFromText(resp.texts[1]),
               confidence_score |-> Rat(85, 100),
               ocr_engine |-> "google_vision"]
         ELSE EmptyResult("google_vision")

\* mutant: the last annotation supplies the text
ExtractWithGoogleVision_LastAnnotation(client, resp) ==
    IF ~client THEN EmptyResult("google_vision")
    ELSE IF resp.kind # "ok" THEN EmptyResult("google_vision")
    ELSE IF resp.texts # <<>>
         THEN [extracted_text |-> Strip(resp.texts[Len(resp.texts)]),
               extracted_weight |-> ExtractWeightFromText(resp.texts[Len(resp.texts)]),
               confidence_score |-> Rat(85, 100),
               ocr_engine |-> "google_vision"]
         ELSE EmptyResult("google_vision")

\* lines 186-241
ExtractWithGoogleVision(client, resp) ==
    IF ~client THEN EmptyResult("google_vision")
    ELSE IF resp.kind # "ok" THEN EmptyResult("google_vision")
    ELSE IF resp.texts # <<>>
         THEN [extracted_text |-> Strip(resp.texts[1]),
               extracted_weight |-> ExtractWeightFromText(resp.texts[1]),
               confidence_score |-> Rat(85, 100),
               ocr_engine |-> "google_vision"]
         ELSE EmptyResult("google_vision")

\* each client state and response with the adapter's return value for them
VisionReturns ==
    {<<client, resp, ExtractWithGoogleVision(client, resp)>> :
        client \in BOOLEAN, resp \in VisionResponses}

-----------------------------------------------------------------------------
(* OCRService._log_ocr_processing *)

\* where the write can fail: nowhere, building or adding the row, the commit
LogFaults == {"none", "add", "commit"}

LogRow(reg, text, conf, ms, engine) ==
    [registration_id |-> reg, extracted_text |-> text, confidence_score |-> conf,
     processing_time_ms |-> ms, ocr_engine |-> engine]

SessionAdd(session, row) == [session EXCEPT !.pending = Append(@, row)]

SessionCommit(session) ==
    [committed |-> session.committed \o session.pending, pending |-> <<>>]

SessionRollback(session) == [session EXCEPT !.pending = <<>>]

\* the session after _log_ocr_processing: the row committed, or the session
\* rolled back by the except clause
LogOcrProcessing(session, row, fault) ==
    IF fault = "add" THEN SessionRollback(session)
    ELSE IF fault = "commit" THEN SessionRollback(SessionAdd(session, row))
    ELSE SessionCommit(SessionAdd(session, row))

\* mutant: a failed write is not caught
LogRaises_Propagates(fault) == fault # "none"

\* whether an exception leaves _log_ocr_processing: the except clause of
\* line 317 catches every Exception of the write
LogRaises(fault) == FALSE

-----------------------------------------------------------------------------
(* OCRService.process_image *)

\* registration ids a caller passes: omitted, empty, or the id of a record
RegistrationIds == {None, <<"">>, <<"7f9c2e1a">>}

\* mutant: the attempt is never logged
ShouldLog_Never(reg) == FALSE

\* mutant: the attempt is logged whatever the id
ShouldLog_Always(reg) == TRUE

\* `if registration_id:`
ShouldLog(reg) == reg # None /\ reg # <<"">>

\* mutant: the threshold itself no longer counts as acceptable
TesseractAcceptable_Strict(t) == RatLt(Rat(7, 10), t.confidence_score)

\* `tesseract_result['confidence_score'] >= 0.7`
TesseractAcceptable(t) == RatLeq(Rat(7, 10), t.confidence_score)

\* mutant: a tie goes to the secondary result
Arbitrate_TieToVision(t, v) ==
    IF RatLeq(t.confidence_score, v.confidence_score) THEN "vision" ELSE "tesseract"

\* lines 74-77: which dict `result` is bound to after the fallback
Arbitrate(t, v) ==
    IF RatLt(t.confidence_score, v.confidence_score) THEN "vision" ELSE "tesseract"

\* mutant: int(time.time() - start_time) * 1000, whole seconds only
ElapsedMs_WholeSeconds(start, now) == ((now - start) \div (1000 * TicksPerMs)) * 1000

\* int((time.time() - start_time) * 1000)
ElapsedMs(start, now) == (now - start) \div TicksPerMs

\* mutant: the time is not handed to the log
SuccessLogRow_NoTime(reg, res, ms) ==
    LogRow(reg, res.extracted_text, res.confidence_score, 0, res.ocr_engine)

\* the row of lines 85-91
SuccessLogRow(reg, res, ms) ==
    LogRow(reg, res.extracted_text, res.confidence_score, ms, res.ocr_engine)

\* the row of lines 106-112
FailureLogRow(reg, ms) == LogRow(reg, <<>>, Zero, ms, "error")

\* mutant: the failure dict keeps the primary engine's tag
FailureOutcome_PrimaryTag(ms, e) ==
    [success |-> FALSE, extracted_weight |-> None, confidence_score |-> Zero,
     ocr_engine |-> "tesseract", processing_time_ms |-> ms, error |-> e]

\* the dict of lines 114-121
FailureOutcome(ms, e) ==
    [success |-> FALSE, extracted_weight |-> None, confidence_score |-> Zero,
     ocr_engine |-> "error", processing_time_ms |-> ms, error |-> e]

\* mutant: a result without a weight takes the weight the primary engine found
ValidatedResults_BorrowsWeight(res) ==
    LET weight == IF res.extracted_weight = None /\ tesseract_result # None
                  THEN tesseract_result.extracted_weight ELSE res.extracted_weight
    IN  IF weight # None
        THEN {SetKey(SetKey(res, "extracted_weight", w), "success", TRUE) :
                w \in ValidateWeightValue(weight)}
        ELSE {SetKey(res, "success", TRUE)}

\* the dicts lines 93-98 can leave in `result`
ValidatedResults(res) ==
    IF res.extracted_weight # None
    THEN {SetKey(SetKey(res, "extracted_weight", w), "success", TRUE) :
            w \in ValidateWeightValue(res.extracted_weight)}
    ELSE {SetKey(res, "success", TRUE)}

NoHistory ==
    [download |-> None, primary |-> None, secondary |-> None,
     primary_raised |-> FALSE, secondary_failed |-> FALSE,
     tesseract_calls |-> 0, vision_calls |-> 0, remote_calls |-> 0,
     tesseract_arg |-> None, vision_arg |-> None,
     log_calls |-> <<>>, log_faults |-> <<>>,
     stage_ticks |-> 0, measured_at |-> None, returned_at |-> None,
     faults |-> {}, stage_calls |-> <<>>, is_allowed_calls |-> <<>>,
     vision_answer |-> None]

Init ==
    /\ vision_client \in BOOLEAN
    /\ db = [committed |-> <<>>, pending |-> <<>>]
    /\ clock = 0
    /\ pc = "idle"
    /\ image_url = None
    /\ registration_id = None
    /\ start_time = None
    /\ image = None
    /\ processed_image = None
    /\ tesseract_result = None
    /\ vision_result = None
    /\ result = "unbound"
    /\ exc = None
    /\ outcome = None
    /\ ocr_text = None
    /\ parsed_weight = None
    /\ inv = None
    /\ sessions = None
    /\ requests = None
    /\ weight_arg = None
    /\ validations = <<>>
    /\ hough_lines = None
    /\ rotation_out = None
    /\ hist = NoHistory

\* the dict `result` refers to
ResultDict == IF result = "vision" THEN vision_result ELSE tesseract_result

\* a write through `result`: the dict it refers to changes, the other does not
WriteResult(d) ==
    IF result = "vision"
    THEN vision_result' = d /\ UNCHANGED tesseract_result
    ELSE tesseract_result' = d /\ UNCHANGED vision_result

\* line 53: the call, and start_time = time.time()
Call ==
    /\ pc = "idle"
    /\ \E url \in ImageUrls, reg \in RegistrationIds :
         /\ image_url' = url
         /\ registration_id' = reg
    /\ start_time' = <<clock>>
    /\ pc' = "download"
    /\ UNCHANGED other_vars
    /\ UNCHANGED <<vision_client, db, clock, image, processed_image,
                   tesseract_result, vision_result, result, exc, outcome, hist>>

\* mutant: a failed download is tried again
Download_Retries ==
    /\ pc = "download"
    /\ \E d \in 0..MaxStageTicks, r \in DownloadImage(image_url) :
         /\ clock' = clock + d
         /\ hist' = [hist EXCEPT !.download = r, !.stage_ticks = @ + d]
         /\ IF r.raised
            THEN /\ pc' = "download"
                 /\ UNCHANGED image
            ELSE /\ image' = r.value
                 /\ pc' = "preprocess"
    /\ UNCHANGED other_vars
    /\ UNCHANGED <<vision_client, db, image_url, registration_id, start_time, exc,
                   processed_image, tesseract_result, vision_result, result, outcome>>

\* line 57: image = self._download_image(image_url)
Download ==
    /\ pc = "download"
    /\ \E d \in 0..MaxStageTicks, r \in DownloadImage(image_url) :
         /\ clock' = clock + d
         /\ hist' = [hist EXCEPT !.download = r, !.stage_ticks = @ + d]
         /\ IF r.raised
            THEN /\ exc' = r.value
                 /\ pc' = "except"
                 /\ UNCHANGED image
            ELSE /\ image' = r.value
                 /\ pc' = "preprocess"
                 /\ UNCHANGED exc
    /\ UNCHANGED other_vars
    /\ UNCHANGED <<vision_client, db, image_url, registration_id, start_time,
                   processed_image, tesseract_result, vision_result, result, outcome>>

\* line 60: processed_image = preprocess_image_for_ocr(image)
Preprocess ==
    /\ pc = "preprocess"
    /\ \E d \in 0..MaxStageTicks, faults \in PipelineFaults :
         /\ clock' = clock + d
         /\ processed_image' = PreprocessImageForOcr(image, faults)
         /\ hist' = [hist EXCEPT !.stage_ticks = @ + d]
    /\ pc' = "tesseract"
    /\ UNCHANGED other_vars
    /\ UNCHANGED <<vision_client, db, image_url, registration_id, start_time, image,
                   tesseract_result, vision_result, result, exc, outcome>>

\* lines 63-67: the primary adapter, and the test of its confidence
Tesseract ==
    /\ pc = "tesseract"
    /\ \E d \in 0..MaxStageTicks, call \in TesseractReturns :
         LET out == call[1]
             t   == call[2]
         IN  /\ clock' = clock + d
             /\ tesseract_result' = t
             /\ hist' = [hist EXCEPT !.primary = t,
                                     !.primary_raised = out.raised,
                                     !.tesseract_calls = @ + 1,
                                     !.tesseract_arg = processed_image,
                                     !.stage_ticks = @ + d]
             /\ IF TesseractAcceptable(t)
                THEN result' = "tesseract" /\ pc' = "timing"
                ELSE result' = result /\ pc' = "vision"
    /\ UNCHANGED other_vars
    /\ UNCHANGED <<vision_client, db, image_url, registration_id, start_time, image,
                   processed_image, vision_result, exc, outcome>>

\* lines 69-77: the secondary adapter, and the choice between the two results
Vision ==
    /\ pc = "vision"
    /\ \E d \in 0..MaxStageTicks, call \in VisionReturns :
         LET resp == call[2]
             v    == call[3]
         IN  /\ call[1] = vision_client
             /\ clock' = clock + d
             /\ vision_result' = v
             /\ hist' = [hist EXCEPT !.secondary = v,
                                     !.vision_answer =
                                         IF CallsRemote(vision_client) /\ resp.kind = "ok"
                                                /\ resp.texts # <<>>
                                         THEN <<resp.texts[1]>> ELSE None,
                                     !.secondary_failed =
                                         ~vision_client \/ resp.kind # "ok",
                                     !.vision_calls = @ + 1,
                                     !.remote_calls =
                                         IF CallsRemote(vision_client) THEN @ + 1 ELSE @,
                                     !.vision_arg = image,
                                     !.stage_ticks = @ + d]
             /\ result' = Arbitrate(tesseract_result, v)
    /\ pc' = "timing"
    /\ UNCHANGED other_vars
    /\ UNCHANGED <<vision_client, db, image_url, registration_id, start_time, image,
                   processed_image, tesseract_result, exc, outcome>>

\* lines 79-91: the time is taken and stored in the result, then the attempt
\* is logged when a registration id was given
LogSuccess ==
    /\ pc = "timing"
    /\ LET ms  == ElapsedMs(start_time[1], clock)
           res == SetKey(ResultDict, "processing_time_ms", ms)
       IN  /\ WriteResult(res)
           /\ \/ /\ ShouldLog(registration_id)
                 /\ \E d \in 0..MaxStageTicks, fault \in LogFaults :
                      LET row == SuccessLogRow(registration_id, res, ms)
                      IN  /\ clock' = clock + d
                          /\ db' = LogOcrProcessing(db, row, fault)
                          /\ hist' = [hist EXCEPT !.measured_at = <<clock>>,
                                                  !.log_calls = Append(@, row),
                                                  !.log_faults = Append(@, fault)]
                          /\ IF LogRaises(fault)
                             THEN exc' = <<"log write failed: ", fault>> /\ pc' = "except"
                             ELSE exc' = exc /\ pc' = "validate"
              \/ /\ ~ShouldLog(registration_id)
                 /\ hist' = [hist EXCEPT !.measured_at = <<clock>>]
                 /\ pc' = "validate"
                 /\ UNCHANGED <<clock, db, exc>>
    /\ UNCHANGED other_vars
    /\ UNCHANGED <<vision_client, image_url, registration_id, start_time, image,
                   processed_image, result, outcome>>

\* mutant: the time is taken again on return, after the log write
ValidateReturn_Retimes ==
    /\ pc = "validate"
    /\ \E r \in ValidatedResults(ResultDict) :
         LET timed == SetKey(r, "processing_time_ms", ElapsedMs(start_time[1], clock))
         IN  /\ WriteResult(timed)
             /\ outcome' = timed
    /\ hist' = [hist EXCEPT !.returned_at = <<clock>>]
    /\ pc' = "returned"
    /\ UNCHANGED other_vars
    /\ UNCHANGED <<vision_client, db, clock, image_url, registration_id, start_time,
                   image, processed_image, result, exc>>

\* lines 93-98: the weight is validated, success is set, the result returned
ValidateReturn ==
    /\ pc = "validate"
    /\ \E r \in ValidatedResults(ResultDict) :
         /\ WriteResult(r)
         /\ outcome' = r
    /\ hist' = [hist EXCEPT !.returned_at = <<clock>>]
    /\ pc' = "returned"
    /\ UNCHANGED other_vars
    /\ UNCHANGED <<vision_client, db, clock, image_url, registration_id, start_time,
                   image, processed_image, result, exc>>

\* lines 100-121: the except clause: the time is taken, the failed attempt is
\* logged when a registration id was given, the failure dict returned
HandleFailure ==
    /\ pc = "except"
    /\ LET ms == ElapsedMs(start_time[1], clock)
       IN  \/ /\ ShouldLog(registration_id)
              /\ \E d \in 0..MaxStageTicks, fault \in LogFaults :
                   LET row == FailureLogRow(registration_id, ms)
                   IN  /\ clock' = clock + d
                       /\ db' = LogOcrProcessing(db, row, fault)
                       /\ hist' = [hist EXCEPT !.measured_at = <<clock>>,
                                               !.returned_at = <<clock + d>>,
                                               !.log_calls = Append(@, row),
                                               !.log_faults = Append(@, fault)]
                       /\ IF LogRaises(fault)
                          THEN outcome' = outcome /\ pc' = "raised"
                          ELSE outcome' = FailureOutcome(ms, exc) /\ pc' = "returned"
           \/ /\ ~ShouldLog(registration_id)
              /\ hist' = [hist EXCEPT !.measured_at = <<clock>>,
                                      !.returned_at = <<clock>>]
              /\ outcome' = FailureOutcome(ms, exc)
              /\ pc' = "returned"
              /\ UNCHANGED <<clock, db>>
    /\ UNCHANGED other_vars
    /\ UNCHANGED <<vision_client, image_url, registration_id, start_time, image,
                   processed_image, tesseract_result, vision_result, result, exc>>

Next ==
    \/ Call
    \/ Download
    \/ Preprocess
    \/ Tesseract
    \/ Vision
    \/ LogSuccess
    \/ ValidateReturn
    \/ HandleFailure

Spec == Init /\ [][Next]_vars

\* the same, with every call returning: an invocation that can take a step
\* takes one
LiveSpec == Spec /\ WF_vars(Next)

-----------------------------------------------------------------------------
(* preprocess_image_for_ocr called on its own *)

ConditionerInit ==
    /\ vision_client = FALSE
    /\ db = [committed |-> <<>>, pending |-> <<>>]
    /\ clock = 0
    /\ pc = "condition"
    /\ image_url = None
    /\ registration_id = None
    /\ start_time = None
    /\ image \in SampleImages
    /\ processed_image = None
    /\ tesseract_result = None
    /\ vision_result = None
    /\ result = "unbound"
    /\ exc = None
    /\ outcome = None
    /\ ocr_text = None
    /\ parsed_weight = None
    /\ inv = None
    /\ sessions = None
    /\ requests = None
    /\ weight_arg = None
    /\ validations = <<>>
    /\ hough_lines = None
    /\ rotation_out = None
    /\ hist = NoHistory

\* lines 24-45, with any set of the stages (and the conversion) failing
Condition ==
    /\ pc = "condition"
    /\ \E faults \in StageFaults :
         /\ processed_image' = PreprocessImageForOcr(image, faults)
         /\ hist' = [hist EXCEPT !.faults = faults,
                                 !.stage_calls =
                                     IF ConversionFails(image, faults) THEN <<>>
                                     ELSE StageCalls(ToArray(image), 1, faults)]
    /\ pc' = "conditioned"
    /\ UNCHANGED <<vision_client, db, clock, image_url, registration_id, start_time,
                   image, tesseract_result, vision_result, result, exc, outcome,
                   ocr_text, parsed_weight, inv, sessions, requests, extra_vars>>

ConditionerSpec == ConditionerInit /\ [][Condition]_vars

-----------------------------------------------------------------------------
(* Texts _extract_weight_from_text is applied to on its own *)

\* words of a label as an engine reads them
Words == {
    <<"2", ".", "5", "k", "g">>,
    <<"7", "5", "k", "g">>,
    <<"2", "5", "0", "0", "g">>,
    <<"2", ".", "5">>,
    <<"1", "2">>,
    <<"2", "5", "0", "0">>,
    <<"2", ",", "5">>,
    <<"P", "E", "S", "O", ":">>,
    <<"w", "e", "i", "g", "h", "t", ":">>,
    <<"k", "g">>,
    <<"K", "G">>,
    <<"G">>,
    <<"L", "o", "t", "e">> }

\* the words with one space between them
RECURSIVE Join(_)
Join(ws) ==
    IF ws = <<>> THEN <<>>
    ELSE IF Len(ws) = 1 THEN ws[1]
    ELSE ws[1] \o <<" ">> \o Join(Tail(ws))

ParserTexts == {Join(ws) : ws \in UNION {[1..n -> Words] : n \in 0..MaxWords}}

ParserInit ==
    /\ vision_client = FALSE
    /\ db = [committed |-> <<>>, pending |-> <<>>]
    /\ clock = 0
    /\ pc = "parse"
    /\ image_url = None
    /\ registration_id = None
    /\ start_time = None
    /\ image = None
    /\ processed_image = None
    /\ tesseract_result = None
    /\ vision_result = None
    /\ result = "unbound"
    /\ exc = None
    /\ outcome = None
    /\ ocr_text \in ParserTexts
    /\ parsed_weight = None
    /\ inv = None
    /\ sessions = None
    /\ requests = None
    /\ weight_arg = None
    /\ validations = <<>>
    /\ hough_lines = None
    /\ rotation_out = None
    /\ hist = NoHistory

\* lines 243-290
ExtractWeight ==
    /\ pc = "parse"
    /\ parsed_weight' = ExtractWeightFromText(ocr_text)
    /\ pc' = "parsed"
    /\ UNCHANGED <<vision_client, db, clock, image_url, registration_id, start_time,
                   image, processed_image, tesseract_result, vision_result, result,
                   exc, outcome, ocr_text, inv, sessions, requests, extra_vars,
                   hist>>

ParserSpec == ParserInit /\ [][ExtractWeight]_vars

-----------------------------------------------------------------------------
(* Concurrent invocations of process_image on the one OCRService of           *)
(* routes/ocr.py.  Each thread has its own locals (inv[p]) and its own        *)
(* db.session; self.vision_client, the clock and the table are shared.  A     *)
(* step is the code between two accesses to what is shared.                   *)

Threads == {1, 2}

\* mutant: every thread works on one session
SessionOf_Shared(p) == 1

\* db.session is a scoped session: the one of the calling thread
SessionOf(p) == p

\* the inputs the concurrent invocations are followed through
ConcurrentIds == {None, <<"7f9c2e1a">>}

ConcurrentDownloads(url) ==
    {r \in DownloadImage(url) :
        ~r.raised \/ r.value = LoadFailure(url, "UnidentifiedImageError")}

ConcurrentFaults == {{}}

ConcurrentTesseractReturns ==
    {call \in TesseractReturns :
        /\ ~call[1].raised
        /\ call[1].text = <<"P", "E", "S", "O", ":", " ", "2", ".", "5", " ", "k", "g">>
        /\ call[1].conf \in {<<40>>, <<100>>}}

ConcurrentVisionReturns ==
    {call \in VisionReturns :
        \/ call[2].kind = "error"
        \/ call[2].kind = "ok" /\ call[2].texts = <<<<"2", "5", "0", "0", " ", "g">>>>}

IdleThread ==
    [pc |-> "idle", image_url |-> None, registration_id |-> None,
     start_time |-> None, image |-> None, processed_image |-> None,
     tesseract_result |-> None, vision_result |-> None, result |-> "unbound",
     exc |-> None, ms |-> 0, outcome |-> None,
     row |-> None, log_fault |-> "unset", resume |-> "idle",
     download |-> None, primary |-> None, secondary |-> None, measured_at |-> None]

ConcurrentInit ==
    /\ vision_client \in BOOLEAN
    /\ db = [committed |-> <<>>, pending |-> <<>>]
    /\ clock = 0
    /\ pc = "threads"
    /\ image_url = None
    /\ registration_id = None
    /\ start_time = None
    /\ image = None
    /\ processed_image = None
    /\ tesseract_result = None
    /\ vision_result = None
    /\ result = "unbound"
    /\ exc = None
    /\ outcome = None
    /\ ocr_text = None
    /\ parsed_weight = None
    /\ inv = [p \in Threads |-> IdleThread]
    /\ sessions = [k \in Threads |-> <<>>]
    /\ requests = None
    /\ weight_arg = None
    /\ validations = <<>>
    /\ hough_lines = None
    /\ rotation_out = None
    /\ hist = NoHistory

\* the variables of the single invocation, which the threads do not touch
single_vars == <<pc, image_url, registration_id, start_time, image, processed_image,
                 tesseract_result, vision_result, result, exc, outcome,
                 ocr_text, parsed_weight, requests, extra_vars, hist>>

\* thread p's locals become l
Bind(p, l) == inv' = [inv EXCEPT ![p] = l]

\* the dict thread-local `result` refers to
ResultDictOf(l) == IF l.result = "vision" THEN l.vision_result ELSE l.tesseract_result

\* a write through thread-local `result`
WriteResultOf(l, d) ==
    IF l.result = "vision" THEN [l EXCEPT !.vision_result = d]
    ELSE [l EXCEPT !.tesseract_result = d]

\* the session thread p works on, with the table
SessionView(p) == [committed |-> db.committed, pending |-> sessions[SessionOf(p)]]

StoreSession(p, sv) ==
    /\ db' = [db EXCEPT !.committed = sv.committed]
    /\ sessions' = [sessions EXCEPT ![SessionOf(p)] = sv.pending]

\* time passes while an invocation runs
Tick ==
    /\ clock < MaxClock
    /\ \E p \in Threads : inv[p].pc \notin {"idle", "returned"}
    /\ clock' = clock + 1
    /\ UNCHANGED <<vision_client, db, inv, sessions, single_vars>>

\* line 53
TCall(p) ==
    /\ inv[p].pc = "idle"
    /\ \E url \in ImageUrls, reg \in ConcurrentIds :
         Bind(p, [inv[p] EXCEPT !.image_url = url, !.registration_id = reg,
                                !.start_time = <<clock>>, !.pc = "download"])
    /\ UNCHANGED <<vision_client, db, clock, sessions, single_vars>>

\* line 57
TDownload(p) ==
    /\ inv[p].pc = "download"
    /\ \E r \in ConcurrentDownloads(inv[p].image_url) :
         Bind(p, IF r.raised
                 THEN [inv[p] EXCEPT !.download = r, !.exc = r.value, !.pc = "except"]
                 ELSE [inv[p] EXCEPT !.download = r, !.image = r.value,
                                     !.pc = "preprocess"])
    /\ UNCHANGED <<vision_client, db, clock, sessions, single_vars>>

\* line 60
TPreprocess(p) ==
    /\ inv[p].pc = "preprocess"
    /\ \E faults \in ConcurrentFaults :
         Bind(p, [inv[p] EXCEPT
                    !.processed_image = PreprocessImageForOcr(inv[p].image, faults),
                    !.pc = "tesseract"])
    /\ UNCHANGED <<vision_client, db, clock, sessions, single_vars>>

\* lines 63-67
TTesseract(p) ==
    /\ inv[p].pc = "tesseract"
    /\ \E call \in ConcurrentTesseractReturns :
         LET t == call[2]
         IN  Bind(p, [inv[p] EXCEPT
                        !.tesseract_result = t,
                        !.primary = t,
                        !.result = IF TesseractAcceptable(t) THEN "tesseract" ELSE @,
                        !.pc = IF TesseractAcceptable(t) THEN "timing" ELSE "vision"])
    /\ UNCHANGED <<vision_client, db, clock, sessions, single_vars>>

\* lines 69-77
TVision(p) ==
    /\ inv[p].pc = "vision"
    /\ \E call \in ConcurrentVisionReturns :
         /\ call[1] = vision_client
         /\ Bind(p, [inv[p] EXCEPT
                       !.vision_result = call[3],
                       !.secondary = call[3],
                       !.result = Arbitrate(inv[p].tesseract_result, call[3]),
                       !.pc = "timing"])
    /\ UNCHANGED <<vision_client, db, clock, sessions, single_vars>>

\* lines 79-84: the time is taken and stored in the result; the row to log is
\* built when a registration id was given
TTiming(p) ==
    /\ inv[p].pc = "timing"
    /\ LET ms  == ElapsedMs(inv[p].start_time[1], clock)
           res == SetKey(ResultDictOf(inv[p]), "processing_time_ms", ms)
           l   == [WriteResultOf(inv[p], res) EXCEPT !.ms = ms, !.measured_at = <<clock>>]
       IN  Bind(p, IF ShouldLog(l.registration_id)
                   THEN [l EXCEPT !.row = SuccessLogRow(l.registration_id, res, ms),
                                  !.resume = "validate", !.pc = "log_add"]
                   ELSE [l EXCEPT !.pc = "validate"])
    /\ UNCHANGED <<vision_client, db, clock, sessions, single_vars>>

\* lines 305-314: the row is added to the thread's session, or building or
\* adding it fails and the session is rolled back
TLogAdd(p) ==
    /\ inv[p].pc = "log_add"
    /\ \E fault \in LogFaults :
         IF fault = "add"
         THEN /\ StoreSession(p, SessionRollback(SessionView(p)))
              /\ Bind(p, [inv[p] EXCEPT !.log_fault = fault, !.pc = inv[p].resume])
         ELSE /\ StoreSession(p, SessionAdd(SessionView(p), inv[p].row))
              /\ Bind(p, [inv[p] EXCEPT !.log_fault = fault, !.pc = "log_commit"])
    /\ UNCHANGED <<vision_client, clock, single_vars>>

\* lines 315-319: the commit, or its failure and the rollback
TLogCommit(p) ==
    /\ inv[p].pc = "log_commit"
    /\ IF inv[p].log_fault = "commit"
       THEN StoreSession(p, SessionRollback(SessionView(p)))
       ELSE StoreSession(p, SessionCommit(SessionView(p)))
    /\ Bind(p, [inv[p] EXCEPT !.pc = inv[p].resume])
    /\ UNCHANGED <<vision_client, clock, single_vars>>

\* lines 93-98
TValidateReturn(p) ==
    /\ inv[p].pc = "validate"
    /\ \E r \in ValidatedResults(ResultDictOf(inv[p])) :
         Bind(p, [WriteResultOf(inv[p], r) EXCEPT !.outcome = r, !.pc = "returned"])
    /\ UNCHANGED <<vision_client, db, clock, sessions, single_vars>>

\* lines 100-105
TExcept(p) ==
    /\ inv[p].pc = "except"
    /\ LET ms == ElapsedMs(inv[p].start_time[1], clock)
           l  == [inv[p] EXCEPT !.ms = ms, !.measured_at = <<clock>>]
       IN  Bind(p, IF ShouldLog(l.registration_id)
                   THEN [l EXCEPT !.row = FailureLogRow(l.registration_id, ms),
                                  !.resume = "fail_return", !.pc = "log_add"]
                   ELSE [l EXCEPT !.pc = "fail_return"])
    /\ UNCHANGED <<vision_client, db, clock, sessions, single_vars>>

\* lines 114-121
TFailReturn(p) ==
    /\ inv[p].pc = "fail_return"
    /\ Bind(p, [inv[p] EXCEPT !.outcome = FailureOutcome(inv[p].ms, inv[p].exc),
                              !.pc = "returned"])
    /\ UNCHANGED <<vision_client, db, clock, sessions, single_vars>>

ConcurrentNext ==
    \/ Tick
    \/ \E p \in Threads :
         \/ TCall(p)
         \/ TDownload(p)
         \/ TPreprocess(p)
         \/ TTesseract(p)
         \/ TVision(p)
         \/ TTiming(p)
         \/ TLogAdd(p)
         \/ TLogCommit(p)
         \/ TValidateReturn(p)
         \/ TExcept(p)
         \/ TFailReturn(p)

ConcurrentSpec == ConcurrentInit /\ [][ConcurrentNext]_vars

-----------------------------------------------------------------------------
(* app.utils.rate_limiting.InMemoryRateLimiter.  The clock is time.time() in  *)
(* seconds here; the calls are made one after the other.                      *)

Keys == {"user:1", "user:2"}

\* the limits and windows, in seconds, the callers pass
Policies == {[limit |-> 1, window |-> 1],
             [limit |-> 2, window |-> 1],
             [limit |-> 2, window |-> 2]}

\* mutant: one deque for every key
BucketOf_Shared(key) == "user:1"

\* self.requests[key]
BucketOf(key) == key

\* lines 23-24: popleft() while the oldest timestamp is before window_start
RECURSIVE PopOld(_, _)
PopOld(q, window_start) ==
    IF q # <<>> /\ Head(q) < window_start THEN PopOld(Tail(q), window_start) ELSE q

\* lines 19-31: the decision, and self.requests after the call
IsAllowed(reqs, key, limit, window_seconds, now) ==
    LET window_start == now - window_seconds
        kept == PopOld(reqs[BucketOf(key)], window_start)
    IN  IF Len(kept) < limit
        THEN [allowed |-> TRUE,
              requests |-> [reqs EXCEPT ![BucketOf(key)] = Append(kept, now)]]
        ELSE [allowed |-> FALSE,
              requests |-> [reqs EXCEPT ![BucketOf(key)] = kept]]

\* line 15: a defaultdict of deques, empty for a key never seen
LimiterInit ==
    /\ vision_client = FALSE
    /\ db = [committed |-> <<>>, pending |-> <<>>]
    /\ clock = 0
    /\ pc = "limiter"
    /\ image_url = None
    /\ registration_id = None
    /\ start_time = None
    /\ image = None
    /\ processed_image = None
    /\ tesseract_result = None
    /\ vision_result = None
    /\ result = "unbound"
    /\ exc = None
    /\ outcome = None
    /\ ocr_text = None
    /\ parsed_weight = None
    /\ inv = None
    /\ sessions = None
    /\ requests = [k \in Keys |-> <<>>]
    /\ weight_arg = None
    /\ validations = <<>>
    /\ hough_lines = None
    /\ rotation_out = None
    /\ hist = NoHistory

\* what the limiter does not touch
limiter_frame == <<vision_client, db, pc, image_url, registration_id, start_time, image,
                   processed_image, tesseract_result, vision_result, result, exc,
                   outcome, ocr_text, parsed_weight, inv, sessions, extra_vars>>

\* one call of is_allowed
IsAllowedCall ==
    /\ pc = "limiter"
    /\ Len(hist.is_allowed_calls) < MaxCalls
    /\ \E key \in Keys, policy \in Policies :
         LET r == IsAllowed(requests, key, policy.limit, policy.window, clock)
         IN  /\ requests' = r.requests
             /\ hist' = [hist EXCEPT !.is_allowed_calls =
                           Append(@, [key |-> key, limit |-> policy.limit,
                                      window |-> policy.window, now |-> clock,
                                      allowed |-> r.allowed,
                                      before |-> requests, after |-> r.requests])]
    /\ UNCHANGED <<clock, limiter_frame>>

\* a second passes between two calls
Elapse ==
    /\ pc = "limiter"
    /\ clock < MaxClock
    /\ Len(hist.is_allowed_calls) < MaxCalls
    /\ clock' = clock + 1
    /\ UNCHANGED <<requests, hist, limiter_frame>>

LimiterNext == IsAllowedCall \/ Elapse

LimiterSpec == LimiterInit /\ [][LimiterNext]_vars

-----------------------------------------------------------------------------
(* _validate_weight_value called on its own, then on what it returned *)

\* weights in thousandths of a kg around the lower limit, and a few others
\* about the upper limit and between the two
WeightArgs ==
    {Rat(n, 1000) : n \in 0..MaxMilli}
        \cup {Rat(25, 1), Rat(256789, 100000), Rat(2675, 1000), Rat(49995, 1000),
              Rat(50, 1), Rat(50001, 1000), Rat(55, 1), Rat(2500, 1)}

ValidatorInit ==
    /\ vision_client = FALSE
    /\ db = [committed |-> <<>>, pending |-> <<>>]
    /\ clock = 0
    /\ pc = "validate_arg"
    /\ image_url = None
    /\ registration_id = None
    /\ start_time = None
    /\ image = None
    /\ processed_image = None
    /\ tesseract_result = None
    /\ vision_result = None
    /\ result = "unbound"
    /\ exc = None
    /\ outcome = None
    /\ ocr_text = None
    /\ parsed_weight = None
    /\ inv = None
    /\ sessions = None
    /\ requests = None
    /\ weight_arg \in WeightArgs
    /\ validations = <<>>
    /\ hough_lines = None
    /\ rotation_out = None
    /\ hist = NoHistory

validator_frame == <<vision_client, db, clock, image_url, registration_id, start_time,
                     image, processed_image, tesseract_result, vision_result, result,
                     exc, outcome, ocr_text, parsed_weight, inv, sessions, requests,
                     weight_arg, hough_lines, rotation_out, hist>>

\* lines 292-299, on the argument
Validate ==
    /\ pc = "validate_arg"
    /\ \E v \in ValidateWeightValue(weight_arg) : validations' = <<v>>
    /\ pc' = "validated"
    /\ UNCHANGED validator_frame

\* lines 292-299, on the weight the first call returned
Revalidate ==
    /\ pc = "validated"
    /\ validations[1] # None
    /\ \E v \in ValidateWeightValue(validations[1]) : validations' = Append(validations, v)
    /\ pc' = "revalidated"
    /\ UNCHANGED validator_frame

ValidatorNext == Validate \/ Revalidate

ValidatorSpec == ValidatorInit /\ [][ValidatorNext]_vars

-----------------------------------------------------------------------------
(* app.utils.image_processing.correct_rotation called on its own.  An angle   *)
(* is a whole number of degrees, a median twice its value in degrees.  The    *)
(* y axis of an image points down, so the angle of a Hough line grows         *)
(* clockwise; `turned` is how far, clockwise and in half degrees, an image    *)
(* has been turned from the array the stage received.                         *)

\* theta, in degrees, of the lines cv2.HoughLines reports
Thetas == {10, 85, 88, 93, 135, 136}

RECURSIVE Run(_, _)
Run(theta, n) == IF n = 0 THEN <<>> ELSE <<theta>> \o Run(theta, n - 1)

\* what HoughLines returns: None, or lines in up to three runs of equal theta
HoughOutputs ==
    {Run(a[1], a[2]) \o Run(b[1], b[2]) \o Run(c[1], c[2]) :
        a \in Thetas \X (0..MaxRun), b \in Thetas \X (0..MaxRun),
        c \in Thetas \X (1..MaxRun)} \cup {None}

\* line 149: np.degrees(theta) - 90
HoughAngle(theta) == theta - 90

\* lines 147-151: the angles within -45..45 of the lines, in order
RECURSIVE AnglesInRange(_)
AnglesInRange(lines) ==
    IF lines = <<>> THEN <<>>
    ELSE LET angle == HoughAngle(Head(lines))
         IN  (IF -45 <= angle /\ angle <= 45 THEN <<angle>> ELSE <<>>)
                 \o AnglesInRange(Tail(lines))

LessOrEqual(a, b) == a <= b

\* line 154, np.median: the middle of the sorted angles, or the mean of the two
\* middle ones; twice its value
Median2(angles) ==
    LET sorted == SortSeq(angles, LessOrEqual)
        n == Len(sorted)
    IN  IF n % 2 = 1 THEN 2 * sorted[(n + 1) \div 2]
        ELSE sorted[n \div 2] + sorted[n \div 2 + 1]

Abs(x) == IF x < 0 THEN -x ELSE x

\* rotate_image(image, angle): cv2.getRotationMatrix2D turns counter-clockwise
\* for a positive angle; when warpAffine fails the image is returned as it is
RotateImage(img, angle2, fault) ==
    IF fault THEN img ELSE [img EXCEPT !.turned = @ - angle2]

\* mutant: every detected line counts
FirstLines_All(lines) == lines

\* line 147: lines[:10]
FirstLines(lines) == SubSeq(lines, 1, IF Len(lines) < 10 THEN Len(lines) ELSE 10)

\* lines 144-160
CorrectRotation(img, lines, fault) ==
    IF lines # None /\ Len(lines) > 0
    THEN LET angles == AnglesInRange(FirstLines(lines))
         IN  IF angles # <<>> /\ Abs(Median2(angles)) > 2 * 2
             THEN RotateImage(img, Median2(angles), fault)
             ELSE img
    ELSE img

RotationInit ==
    /\ vision_client = FALSE
    /\ db = [committed |-> <<>>, pending |-> <<>>]
    /\ clock = 0
    /\ pc = "rotate"
    /\ image_url = None
    /\ registration_id = None
    /\ start_time = None
    /\ image = [mode |-> "RGB", data |-> "label", turned |-> 0]
    /\ processed_image = None
    /\ tesseract_result = None
    /\ vision_result = None
    /\ result = "unbound"
    /\ exc = None
    /\ outcome = None
    /\ ocr_text = None
    /\ parsed_weight = None
    /\ inv = None
    /\ sessions = None
    /\ requests = None
    /\ weight_arg = None
    /\ validations = <<>>
    /\ hough_lines \in HoughOutputs
    /\ rotation_out = None
    /\ hist = NoHistory

\* correct_rotation(image), with the lines found in it and rotate_image failing
\* or not
Rotate ==
    /\ pc = "rotate"
    /\ \E fault \in BOOLEAN :
         /\ rotation_out' = CorrectRotation(image, hough_lines, fault)
         /\ hist' = [hist EXCEPT !.faults = IF fault THEN {"rotate_image"} ELSE {}]
    /\ pc' = "rotated"
    /\ UNCHANGED <<vision_client, db, clock, image_url, registration_id, start_time,
                   image, processed_image, tesseract_result, vision_result, result,
                   exc, outcome, ocr_text, parsed_weight, inv, sessions, requests,
                   weight_arg, validations, hough_lines>>

RotationSpec == RotationInit /\ [][Rotate]_vars

-----------------------------------------------------------------------------
(* Properties of process_image *)

Returned == pc = "returned"

\* the primary adapter has returned in this invocation
PrimaryDone == hist.primary # None

\* _download_image raised in this invocation
AcquisitionFailed == hist.download # None /\ hist.download.raised

\* the weight the outcome carries for an adapter result r
WeightsReturnedFor(r) ==
    IF r.extracted_weight = None THEN {None} ELSE ValidateWeightValue(r.extracted_weight)

\* the outcome carries the adapter result r
Carries(o, r) ==
    /\ o.success = TRUE
    /\ o.ocr_engine = r.ocr_engine
    /\ o.confidence_score = r.confidence_score
    /\ o.extracted_text = r.extracted_text
    /\ o.extracted_weight \in WeightsReturnedFor(r)

\* C1: once the primary result has a confidence of at least 0.7, the
\* secondary adapter is not invoked (and no remote call is made) in any state
\* of the invocation, and the outcome returned carries the primary result.
C1_HighConfidenceSkipsSecondary ==
    (PrimaryDone /\ RatLeq(Rat(7, 10), hist.primary.confidence_score)) =>
        /\ hist.vision_calls = 0
        /\ hist.remote_calls = 0
        /\ pc \in {"timing", "validate", "returned"}
        /\ Returned => Carries(outcome, hist.primary)

C1_Witness ==
    /\ Returned
    /\ PrimaryDone
    /\ RatLeq(Rat(7, 10), hist.primary.confidence_score)
    /\ outcome.ocr_engine = "tesseract"
    /\ outcome.extracted_weight = Rat(5, 2)

\* C2: when the primary result has a confidence below 0.7, the secondary
\* adapter is invoked exactly once; the outcome carries the secondary result
\* only if its confidence is strictly greater than the primary's, and on equal
\* confidence it carries the primary result.
C2_LowConfidenceFallsBackOnce ==
    (PrimaryDone /\ RatLt(hist.primary.confidence_score, Rat(7, 10))) =>
        /\ hist.vision_calls <= 1
        /\ pc \in {"timing", "validate", "returned"} => hist.vision_calls = 1
        /\ Returned =>
            /\ outcome.ocr_engine \in {"tesseract", "google_vision"}
            /\ outcome.ocr_engine = "google_vision" =>
                 /\ RatLt(hist.primary.confidence_score, hist.secondary.confidence_score)
                 /\ Carries(outcome, hist.secondary)
            /\ hist.secondary.confidence_score = hist.primary.confidence_score =>
                 Carries(outcome, hist.primary)

C2_Witness ==
    /\ Returned
    /\ PrimaryDone
    /\ RatLt(hist.primary.confidence_score, Rat(7, 10))
    /\ hist.vision_calls = 1
    /\ hist.primary.extracted_weight # None
    /\ outcome.ocr_engine = "google_vision"
    /\ outcome.extracted_weight # hist.primary.extracted_weight

\* C3: when _download_image raises, no OCR engine is invoked in the
\* invocation and the outcome returned is success=false, engine "error",
\* weight null, confidence 0.0, with the stringified cause in error.
C3_AcquisitionFailure ==
    AcquisitionFailed =>
        /\ hist.tesseract_calls = 0
        /\ hist.vision_calls = 0
        /\ hist.remote_calls = 0
        /\ pc \in {"except", "returned"}
        /\ Returned =>
            /\ DOMAIN outcome = {"success", "extracted_weight", "confidence_score",
                                 "ocr_engine", "processing_time_ms", "error"}
            /\ outcome.success = FALSE
            /\ outcome.ocr_engine = "error"
            /\ outcome.extracted_weight = None
            /\ outcome.confidence_score = Zero
            /\ outcome.error = hist.download.value

C3_Witness ==
    /\ Returned
    /\ AcquisitionFailed
    /\ image_url.scheme = "https"
    /\ outcome.success = FALSE
    /\ outcome.error = LoadFailure(image_url, "Timeout")

\* the outcomes an invocation can return when acquisition ended as dl, the
\* adapters returned prim and sec (None: not invoked) and the stages took
\* `ticks` ticks: a function of these alone
OutcomesFor(dl, prim, sec, ticks) ==
    IF dl.raised
    THEN {[success |-> FALSE, extracted_weight |-> None, confidence_score |-> Zero,
           ocr_engine |-> "error", processing_time_ms |-> ticks \div TicksPerMs,
           error |-> dl.value]}
    ELSE LET sel == IF sec # None /\ RatLt(prim.confidence_score, sec.confidence_score)
                    THEN sec ELSE prim
         IN  {[success |-> TRUE, extracted_text |-> sel.extracted_text,
               extracted_weight |-> w, confidence_score |-> sel.confidence_score,
               ocr_engine |-> sel.ocr_engine,
               processing_time_ms |-> ticks \div TicksPerMs] :
                 w \in WeightsReturnedFor(sel)}

LogFailed == \E i \in DOMAIN hist.log_faults : hist.log_faults[i] # "none"

\* C4: no exception leaves the log sink and the session holds no pending row
\* after it; an invocation whose log write failed returns an outcome that the
\* image, the engine results and the time spent in the stages determine (the
\* same as when the write succeeds), and leaves the table as it was.
C4_LogFailureKeepsOutcome ==
    /\ pc # "raised"
    /\ db.pending = <<>>
    /\ (Returned /\ hist.log_calls # <<>>) =>
         outcome \in OutcomesFor(hist.download, hist.primary, hist.secondary,
                                 hist.stage_ticks)
    /\ LogFailed => db.committed = <<>>
    /\ (hist.log_calls # <<>> /\ ~LogFailed) => db.committed = hist.log_calls

C4_Witness ==
    /\ Returned
    /\ LogFailed
    /\ hist.log_faults = <<"commit">>
    /\ outcome.success = TRUE
    /\ outcome.extracted_weight = Rat(5, 2)

\* C5: the weight of every outcome returned is null or within [0.1, 50.0].
C5_OutcomeWeightInRange ==
    Returned =>
        \/ outcome.extracted_weight = None
        \/ /\ RatLeq(Rat(1, 10), outcome.extracted_weight)
           /\ RatLeq(outcome.extracted_weight, Rat(50, 1))

C5_Witness ==
    /\ Returned
    /\ outcome.success = TRUE
    /\ outcome.extracted_text = <<"1", "2", ".", "3", "4", "5", " ", "k", "g">>
    /\ outcome.extracted_weight = Rat(1235, 100)

InUnitInterval(c) == RatLeq(Zero, c) /\ RatLeq(c, One)

\* C6: the confidence of every result the primary adapter can return, of the
\* results the adapters returned and of the outcome lies in [0, 1]; the
\* primary's is 0.0 when no token has a confidence > 0 and else the mean of
\* those confidences divided by 100.
C6_ConfidenceInUnitInterval ==
    /\ pc = "tesseract" =>
         \A call \in TesseractReturns :
            /\ InUnitInterval(call[2].confidence_score)
            /\ ~call[1].raised =>
                 LET pos == {i \in DOMAIN call[1].conf : call[1].conf[i] > 0}
                     c   == call[2].confidence_score
                 IN  IF pos = {} THEN c = Zero
                     ELSE c[1] * 100 * Cardinality(pos)
                            = c[2] * SumSeq(SelectSeq(call[1].conf, LAMBDA x : x > 0))
    /\ pc = "vision" =>
         \A call \in VisionReturns : InUnitInterval(call[3].confidence_score)
    /\ tesseract_result # None => InUnitInterval(tesseract_result.confidence_score)
    /\ vision_result # None => InUnitInterval(vision_result.confidence_score)
    /\ outcome # None => InUnitInterval(outcome.confidence_score)

C6_Witness ==
    /\ Returned
    /\ hist.vision_calls = 1
    /\ tesseract_result.confidence_score = Rat(40, 100)
    /\ vision_result.confidence_score = Rat(85, 100)
    /\ outcome.confidence_score = Rat(85, 100)

\* C7: once acquisition has succeeded the invocation never enters the except
\* clause and returns success=true; when the primary engine raised and the
\* secondary was unavailable or failed, the outcome has a null weight, a
\* confidence of 0.0 and the primary engine's tag.
C7_EngineFailuresDegrade ==
    (hist.download # None /\ ~hist.download.raised) =>
        /\ pc \notin {"except", "raised"}
        /\ Returned =>
            /\ outcome.success = TRUE
            /\ (hist.primary_raised /\ hist.secondary_failed) =>
                 /\ outcome.extracted_weight = None
                 /\ outcome.confidence_score = Zero
                 /\ outcome.ocr_engine = "tesseract"

C7_Witness ==
    /\ Returned
    /\ hist.primary_raised
    /\ hist.secondary_failed
    /\ vision_client
    /\ outcome.success = TRUE

\* the caller passed the id of a business record
IdGiven == registration_id # None /\ registration_id # <<"">>

\* C8: an invocation given a registration id calls the log sink exactly once
\* before it returns, never twice; on the failure path the row passed has
\* engine "error", confidence 0.0 and an empty text.
C8_LoggedExactlyOnce ==
    IdGiven =>
        /\ Len(hist.log_calls) <= 1
        /\ Returned =>
            /\ Len(hist.log_calls) = 1
            /\ hist.log_calls[1].registration_id = registration_id
            /\ AcquisitionFailed =>
                 /\ hist.log_calls[1].ocr_engine = "error"
                 /\ hist.log_calls[1].confidence_score = Zero
                 /\ hist.log_calls[1].extracted_text = <<>>

C8_Witness ==
    /\ Returned
    /\ IdGiven
    /\ AcquisitionFailed
    /\ Len(hist.log_calls) = 1
    /\ db.committed = hist.log_calls

\* C9: an invocation without a registration id (omitted, or empty) never
\* calls the log sink and leaves the table untouched, and its outcome is the
\* one the image, the engine results and the time spent in the stages
\* determine (the same as with an id).
C9_NoIdNoLog ==
    (pc # "idle" /\ ~IdGiven) =>
        /\ hist.log_calls = <<>>
        /\ db = [committed |-> <<>>, pending |-> <<>>]
        /\ Returned =>
             outcome \in OutcomesFor(hist.download, hist.primary, hist.secondary,
                                     hist.stage_ticks)

C9_Witness ==
    /\ Returned
    /\ registration_id = None
    /\ hist.log_calls = <<>>
    /\ outcome.success = TRUE
    /\ outcome.ocr_engine = "google_vision"

\* C10 as stated: the outcome has processing_time_ms, it is not negative, and
\* it is at least the time spent in acquisition, conditioning and extraction.
C10_AsStated ==
    Returned =>
        /\ "processing_time_ms" \in DOMAIN outcome
        /\ outcome.processing_time_ms >= 0
        /\ outcome.processing_time_ms * TicksPerMs >= hist.stage_ticks

\* C10 amended: the outcome has processing_time_ms, it is not negative, and
\* it is at least the time spent in acquisition, conditioning and extraction
\* rounded down to whole milliseconds.
C10_TimeCoversStages ==
    Returned =>
        /\ "processing_time_ms" \in DOMAIN outcome
        /\ outcome.processing_time_ms >= 0
        /\ outcome.processing_time_ms >= hist.stage_ticks \div TicksPerMs

C10_Witness ==
    /\ Returned
    /\ hist.vision_calls = 1
    /\ hist.stage_ticks % TicksPerMs # 0
    /\ outcome.processing_time_ms >= 1

\* C11 as stated: whenever the secondary adapter has been invoked, the image
\* handed to it is the conditioner's output of this invocation, the image
\* the primary adapter received.
C11_AsStated ==
    hist.vision_calls = 1 =>
        /\ hist.vision_arg = processed_image
        /\ hist.vision_arg = hist.tesseract_arg

\* C12: neither adapter raises: when its engine fails, each returns the empty
\* result (empty text, null weight, confidence 0.0) under its own engine
\* name, and the invocation goes on to return instead of entering the except
\* clause.
C12_AdaptersNeverRaise ==
    /\ pc = "tesseract" =>
         \A call \in TesseractReturns :
            call[1].raised => call[2] = EmptyResult("tesseract")
    /\ pc = "vision" =>
         \A call \in VisionReturns :
            (call[1] /\ call[2].kind # "ok") => call[3] = EmptyResult("google_vision")
    /\ hist.primary_raised =>
         /\ hist.primary = EmptyResult("tesseract")
         /\ pc \in {"vision", "timing", "validate", "returned"}
    /\ (hist.secondary_failed /\ vision_client) =>
         /\ hist.secondary = EmptyResult("google_vision")
         /\ pc \in {"timing", "validate", "returned"}

C12_Witness ==
    /\ Returned
    /\ ~hist.primary_raised
    /\ hist.secondary_failed
    /\ vision_client
    /\ outcome.ocr_engine = "tesseract"
    /\ outcome.extracted_weight # None

\* C13: with no usable client, a fallback makes no remote call, the secondary
\* adapter returns the empty result, `result` stays bound to the primary
\* result and the outcome carries it.
C13_NoClientNoRemoteCall ==
    (~vision_client /\ hist.vision_calls = 1) =>
        /\ hist.remote_calls = 0
        /\ hist.secondary = EmptyResult("google_vision")
        /\ result = "tesseract"
        /\ Returned => Carries(outcome, hist.primary)

C13_Witness ==
    /\ Returned
    /\ ~vision_client
    /\ hist.vision_calls = 1
    /\ hist.remote_calls = 0
    /\ outcome.confidence_score = Rat(40, 100)

-----------------------------------------------------------------------------
(* Properties of preprocess_image_for_ocr *)

Conditioned == pc = "conditioned"

\* grayscale or colour
Family(mode) == IF mode \in {"L", "LA"} THEN "grayscale" ELSE "color"

\* C14 as stated: whichever stages fail, the conditioner returns an image of
\* the input's family: grayscale in, grayscale out; colour in, colour out.
C14_AsStated ==
    Conditioned => Family(processed_image.mode) = Family(image.mode)

\* the five stages were called once each in the order of the claim, each on
\* what the one before returned; a failing stage returned what it was given
\* and a working one added its work to it
StagesRunInOrder ==
    LET order == <<"enhance_contrast", "adjust_brightness", "correct_rotation",
                   "reduce_noise", "sharpen_image">>
        calls == hist.stage_calls
    IN  /\ Len(calls) = 5
        /\ \A k \in 1..5 :
             /\ calls[k].stage = order[k]
             /\ calls[k].given = IF k = 1 THEN ToArray(image) ELSE calls[k - 1].returned
             /\ calls[k].stage \in hist.faults => calls[k].returned = calls[k].given
             /\ calls[k].stage \notin hist.faults =>
                  calls[k].returned.stages = Append(calls[k].given.stages, order[k])
        /\ processed_image.stages = calls[5].returned.stages
        /\ processed_image.stages = SelectSeq(order, LAMBDA st : st \notin hist.faults)

\* C15 as stated: on every image the five stages run once each in order,
\* whichever of them fail.
C15_AsStated == Conditioned => StagesRunInOrder

\* C15 amended: when the image converts to an array the five stages run once
\* each in order, whichever of them fail; when it does not, no stage runs and
\* the image is returned as it came.
C15_StagesRunInOrder ==
    Conditioned =>
        IF ConversionFails(image, hist.faults)
        THEN hist.stage_calls = <<>> /\ processed_image = image
        ELSE StagesRunInOrder

C15_Witness ==
    /\ Conditioned
    /\ image.mode = "RGB"
    /\ hist.faults = {"adjust_brightness", "reduce_noise"}
    /\ processed_image.stages = <<"enhance_contrast", "correct_rotation", "sharpen_image">>

-----------------------------------------------------------------------------
(* Properties of _extract_weight_from_text *)

Parsed == pc = "parsed"

\* the text in lower case with every ',' replaced by '.'
Normalised(t) == [i \in DOMAIN t |-> IF t[i] = "," THEN "." ELSE LowerChar(t[i])]

\* within [0.1, 50.0]
Plausible(w) == w[1] * 10 >= w[2] /\ w[1] <= 50 * w[2]

Least(S) == CHOOSE x \in S : \A y \in S : x <= y

\* the patterns whose first match, converted as the parser converts it, is
\* within range
SurvivingPatterns(t) ==
    {k \in DOMAIN weight_patterns :
        /\ Candidate(t, weight_patterns[k]) # None
        /\ Plausible(Candidate(t, weight_patterns[k]))}

\* the first bare number within range, or None
FirstPlausibleNumber(t) ==
    LET numbers == FindNumbers(t, 1)
        ok      == {i \in DOMAIN numbers : Plausible(ParseFloat(numbers[i]))}
    IN  IF ok = {} THEN None ELSE ParseFloat(numbers[Least(ok)])

\* the values of all the anchored numbers of the text (every match of every
\* pattern), converted as the parser converts them, that are within range
PlausibleAnchored(t) ==
    {w \in UNION {{IF IsGramPattern(weight_patterns[k])
                      THEN RatDiv(ParseFloat(g), 1000) ELSE ParseFloat(g) :
                      g \in Range(FindAll(t, weight_patterns[k], 1))} :
                  k \in DOMAIN weight_patterns} : Plausible(w)}

\* C16 as stated: for a text with some anchored number within range the
\* parser returns an anchored value; a bare number is returned only when no
\* anchored number is within range.
C16_AsStated ==
    Parsed =>
        LET t == Normalised(ocr_text)
        IN  IF PlausibleAnchored(t) # {}
            THEN parsed_weight \in PlausibleAnchored(t)
            ELSE parsed_weight = FirstPlausibleNumber(t)

\* C16 amended: the first match of each pattern is tried in pattern order; one
\* outside the range is discarded and the next pattern is tried; the parser
\* returns the first that is within range, and the first bare number within
\* range (or null) only when none is.
C16_FirstMatchesBeforeBareNumbers ==
    Parsed =>
        LET t == Normalised(ocr_text)
        IN  IF SurvivingPatterns(t) # {}
            THEN parsed_weight = Candidate(t, weight_patterns[Least(SurvivingPatterns(t))])
            ELSE parsed_weight = FirstPlausibleNumber(t)

C16_Witness ==
    /\ Parsed
    /\ ocr_text = <<"7", "5", "k", "g", " ", "2", "5", "0", "0", "g">>
    /\ parsed_weight = Rat(5, 2)

\* the first match of pattern k, divided by 1000 for the '<number> g' pattern
\* only
ClaimedCandidate(t, k) ==
    LET g == FirstMatch(t, weight_patterns[k])
    IN  IF g = None THEN None
        ELSE IF k = 3 THEN RatDiv(ParseFloat(g), 1000) ELSE ParseFloat(g)

\* C17 as stated: the parser's result is the one obtained when only the
\* first match of '<number> g' is divided by 1000 and the first matches of the
\* other four patterns are range-gated and returned as they are.
C17_AsStated ==
    Parsed =>
        LET t  == Normalised(ocr_text)
            ks == {k \in DOMAIN weight_patterns :
                     /\ ClaimedCandidate(t, k) # None
                     /\ Plausible(ClaimedCandidate(t, k))}
        IN  IF ks # {}
            THEN parsed_weight = ClaimedCandidate(t, Least(ks))
            ELSE parsed_weight = FirstPlausibleNumber(t)

\* C18: the parser gives for every text what it gives for the text in lower
\* case with ',' replaced by '.'; 'PESO: 2.5 kg', 'peso: 2.5 kg' and '2,5 kg'
\* give 2.5.
C18_CaseAndCommaInsensitive ==
    /\ Parsed => parsed_weight = ExtractWeightFromText(Normalised(ocr_text))
    /\ (Parsed /\ ocr_text \in {<<"P", "E", "S", "O", ":", " ", "2", ".", "5", " ", "k", "g">>,
                                 <<"2", ",", "5", " ", "k", "g">>}) =>
          parsed_weight = Rat(5, 2)
    /\ ExtractWeightFromText(<<"p", "e", "s", "o", ":", " ", "2", ".", "5", " ", "k", "g">>) = Rat(5, 2)

C18_Witness ==
    /\ Parsed
    /\ ocr_text = <<"2", "5", "0", "0", " ", "G">>
    /\ parsed_weight = Rat(5, 2)

HasDigit(t) == \E i \in DOMAIN t : IsDigit(t[i])

-----------------------------------------------------------------------------
(* Properties of concurrent invocations *)

\* thread p's write to the log went through
Logged(p) ==
    /\ inv[p].log_fault = "none"
    /\ inv[p].pc \in {"validate", "fail_return", "returned"}

\* C20: under every interleaving, each invocation returns an outcome that
\* its own image, its own engine results and the time it measured itself
\* determine, as when run alone; the table holds one row for each thread
\* whose write went through, the row that thread built, and no thread leaves
\* a pending row in its session.
C20_ConcurrentInvocationsIndependent ==
    /\ \A p \in Threads :
         /\ inv[p].pc = "returned" =>
              /\ inv[p].outcome \in
                    OutcomesFor(inv[p].download, inv[p].primary, inv[p].secondary,
                                inv[p].measured_at[1] - inv[p].start_time[1])
              /\ sessions[p] = <<>>
         /\ Logged(p) => inv[p].row \in Range(db.committed)
    /\ Len(db.committed) = Cardinality({p \in Threads : Logged(p)})

C20_Witness ==
    /\ \A p \in Threads : inv[p].pc = "returned" /\ Logged(p)
    /\ inv[1].start_time = <<0>>
    /\ inv[2].start_time = <<1>>
    /\ db.committed = <<inv[2].row, inv[1].row>>
    /\ inv[1].outcome.ocr_engine = "google_vision"
    /\ inv[2].outcome.success = FALSE

-----------------------------------------------------------------------------
(* Properties of InMemoryRateLimiter.is_allowed *)

IsAllowedCalls == hist.is_allowed_calls

CallsOf(k) == {i \in DOMAIN IsAllowedCalls : IsAllowedCalls[i].key = k}

\* every call made for k passed the same limit and the same window
Uniform(k) ==
    \A i, j \in CallsOf(k) :
        /\ IsAllowedCalls[i].limit = IsAllowedCalls[j].limit
        /\ IsAllowedCalls[i].window = IsAllowedCalls[j].window

\* the calls for k that were allowed at a time in lo..hi
AllowedIn(k, lo, hi) ==
    {i \in CallsOf(k) : /\ IsAllowedCalls[i].allowed
                        /\ lo <= IsAllowedCalls[i].now
                        /\ IsAllowedCalls[i].now <= hi}

\* no interval of `window` seconds holds more than `limit` allowed calls for k
WithinLimit(k) ==
    \A i \in CallsOf(k), t \in 0..MaxClock :
        Cardinality(AllowedIn(k, t, t + IsAllowedCalls[i].window)) <= IsAllowedCalls[i].limit

\* when a call for k is allowed, the `window` seconds up to it hold at most the
\* `limit` it passed of allowed calls for k, itself included
WithinLimitAtCall(k) ==
    \A i \in CallsOf(k) :
        LET c == IsAllowedCalls[i]
        IN  c.allowed =>
                Cardinality({j \in AllowedIn(k, c.now - c.window, c.now) : j <= i}) <= c.limit

IsSuffix(a, b) == Len(a) <= Len(b) /\ a = SubSeq(b, Len(b) - Len(a) + 1, Len(b))

\* a denied call appends nothing to the timestamps of its key
DeniedNotRecorded(k) ==
    \A i \in CallsOf(k) :
        ~IsAllowedCalls[i].allowed =>
            IsSuffix(IsAllowedCalls[i].after[k], IsAllowedCalls[i].before[k])

\* the decisions is_allowed takes on a sequence of calls, from timestamps reqs
RECURSIVE Decisions(_, _)
Decisions(calls, reqs) ==
    IF calls = <<>> THEN <<>>
    ELSE LET c == Head(calls)
             r == IsAllowed(reqs, c.key, c.limit, c.window, c.now)
         IN  <<r.allowed>> \o Decisions(Tail(calls), r.requests)

IsKeyCall(c, k) == c.key = k

\* the calls for k got the decisions they get when no other key is ever used,
\* and left the timestamps of the other keys alone
IndependentOfOtherKeys(k) ==
    LET own == SelectSeq(IsAllowedCalls, LAMBDA c : IsKeyCall(c, k))
    IN  /\ Decisions(own, [x \in Keys |-> <<>>]) = [i \in DOMAIN own |-> own[i].allowed]
        /\ \A i \in CallsOf(k), other \in Keys \ {k} :
               IsAllowedCalls[i].after[other] = IsAllowedCalls[i].before[other]

\* a call made once the oldest kept timestamp is more than `window` old is allowed
AllowedAgainAfterWindow(k) ==
    \A i \in CallsOf(k) :
        LET c == IsAllowedCalls[i]
        IN  (c.before[k] # <<>> /\ c.before[k][1] < c.now - c.window) => c.allowed

\* C21 as stated: for every key and any sequence of calls, at most `limit` calls
\* are allowed in any `window` seconds, a denied call is not recorded, other keys
\* do not matter, and the call after the oldest one expired is allowed.
C21_AsStated ==
    \A k \in Keys :
        /\ WithinLimitAtCall(k)
        /\ DeniedNotRecorded(k)
        /\ IndependentOfOtherKeys(k)
        /\ AllowedAgainAfterWindow(k)

\* C21: a denied call is never recorded and keys never influence each other; for
\* a key whose calls all pass the same limit and window, no `window` seconds hold
\* more than `limit` allowed calls and the call after the oldest timestamp
\* expired is allowed.
C21_LimitPerKeyUnderOneLimit ==
    \A k \in Keys :
        /\ DeniedNotRecorded(k)
        /\ IndependentOfOtherKeys(k)
        /\ Uniform(k) => (WithinLimit(k) /\ AllowedAgainAfterWindow(k))

\* user:1 is denied at its limit and allowed again once its oldest call expired,
\* while user:2 is served in between
C21_Witness ==
    /\ Uniform("user:1")
    /\ \E i, j, n \in CallsOf("user:1") :
         /\ i < j /\ j < n
         /\ IsAllowedCalls[i].allowed
         /\ ~IsAllowedCalls[j].allowed
         /\ IsAllowedCalls[n].allowed
         /\ IsAllowedCalls[n].before["user:1"] # <<>>
         /\ IsAllowedCalls[n].before["user:1"][1] < IsAllowedCalls[n].now - IsAllowedCalls[n].window
    /\ \E m \in CallsOf("user:2") : IsAllowedCalls[m].allowed

-----------------------------------------------------------------------------
(* Order and termination of process_image *)

\* the stages in the order of lines 53-121
StageRank ==
    CASE pc = "idle" -> 0
      [] pc = "download" -> 1
      [] pc = "preprocess" -> 2
      [] pc = "tesseract" -> 3
      [] pc = "vision" -> 4
      [] pc = "timing" -> 5
      [] pc \in {"validate", "except"} -> 6
      [] OTHER -> 7

\* a step never stays in a stage nor goes back to one, the secondary engine is
\* only entered from the primary, and the arbitrated result is only timed
\* after the primary or the secondary ran
Forward ==
    /\ StageRank' > StageRank
    /\ pc' = "preprocess" => pc = "download"
    /\ pc' = "tesseract" => pc = "preprocess"
    /\ pc' = "vision" => pc = "tesseract"
    /\ pc' = "timing" => pc \in {"tesseract", "vision"}

\* over: the dict was returned, with success true or false, and nothing follows
Terminal == pc = "returned" /\ outcome # None /\ outcome.success \in BOOLEAN

\* C22: the stages of an invocation occur in the order acquisition,
\* conditioning, primary, optional secondary, arbitration, each at most once,
\* and the invocation ends having returned success=true or success=false.
C22_ForwardOnly ==
    /\ [][Forward]_vars
    /\ [](pc \in {"returned", "raised"} => Terminal)
    /\ <>[]Terminal

\* an invocation that went through every stage, the secondary included
C22_Witness ==
    /\ Terminal
    /\ outcome.success
    /\ hist.download # None /\ ~hist.download.raised
    /\ hist.tesseract_calls = 1
    /\ hist.vision_calls = 1

\* the whole milliseconds between the call and the return
FullPipelineMs == (hist.returned_at[1] - start_time[1]) \div TicksPerMs

\* C23 as stated: the interval processing_time_ms measures starts before
\* acquisition and ends after every stage, the re-validation and the log write
\* included.
C23_AsStated ==
    Returned => outcome.processing_time_ms = FullPipelineMs

\* C23 amended: the interval starts before acquisition and ends when the last
\* of acquisition, conditioning and extraction is over, before the log write and
\* the re-validation: it is the time of those stages and of nothing else.
C23_TimeEndsBeforeLog ==
    Returned =>
        /\ start_time[1] + hist.stage_ticks = hist.measured_at[1]
        /\ hist.measured_at[1] <= hist.returned_at[1]
        /\ outcome.processing_time_ms = hist.stage_ticks \div TicksPerMs

\* a successful invocation whose log write took time the outcome does not count
C23_Witness ==
    /\ Returned
    /\ outcome.success
    /\ Len(hist.log_calls) = 1
    /\ hist.stage_ticks > 0
    /\ outcome.processing_time_ms < FullPipelineMs

-----------------------------------------------------------------------------
(* Properties of _validate_weight_value *)

\* v is a whole number of hundredths
IsHundredth(v) == (100 * v[1]) % v[2] = 0

\* v is no further than half a hundredth from w
WithinHalfHundredth(v, w) ==
    LET diff == v[1] * w[2] - w[1] * v[2]
    IN  200 * (IF diff < 0 THEN -diff ELSE diff) <= v[2] * w[2]

\* C24: _validate_weight_value returns null for a weight outside [0.1, 50.0] and
\* otherwise the weight rounded to 2 decimals, which is in range again; validating
\* what it returned returns the same weight.
C24_ValidatorIdempotent ==
    /\ pc \in {"validated", "revalidated"} =>
         IF Plausible(weight_arg)
         THEN /\ validations[1] # None
              /\ IsHundredth(validations[1])
              /\ WithinHalfHundredth(validations[1], weight_arg)
              /\ Plausible(validations[1])
         ELSE validations[1] = None
    /\ pc = "revalidated" => validations[2] = validations[1]

\* a weight with more than two decimals was rounded, and validated once more
C24_Witness ==
    /\ pc = "revalidated"
    /\ weight_arg = Rat(256789, 100000)
    /\ validations = <<Rat(257, 100), Rat(257, 100)>>

-----------------------------------------------------------------------------
(* Properties of correct_rotation *)

\* the positions, among the first 10 lines, of those within 45 degrees of level
Counted ==
    {i \in DOMAIN hough_lines : /\ i <= 10
                                /\ hough_lines[i] - 90 >= -45
                                /\ hough_lines[i] - 90 <= 45}

\* the least angle with at least half of the counted angles at or below it
LowerMiddle ==
    Least({hough_lines[i] - 90 : i \in {j \in Counted :
        2 * Cardinality({k \in Counted : hough_lines[k] <= hough_lines[j]})
            >= Cardinality(Counted)}})

\* the greatest angle with at least half of the counted angles at or above it
UpperMiddle ==
    -Least({90 - hough_lines[i] : i \in {j \in Counted :
        2 * Cardinality({k \in Counted : hough_lines[k] >= hough_lines[j]})
            >= Cardinality(Counted)}})

-----------------------------------------------------------------------------
(* Properties of the secondary adapter within process_image *)

\* t without the white space around it
Trimmed(t) ==
    LET inside == {i \in DOMAIN t : ~IsSpace(t[i])}
    IN  IF inside = {} THEN <<>>
        ELSE SubSeq(t, Least(inside), -Least({-i : i \in inside}))

\* the remote service was called and answered, without an error, with at least
\* one annotation (hist.vision_answer holds the first)
Answered == hist.vision_answer # None

\* C26: the secondary adapter returns confidence 0.85 and the text of the first
\* annotation when the service answered without error with an annotation, and
\* confidence 0.0, empty text and no weight in every other case.
C26_FixedConfidence ==
    hist.secondary # None =>
        IF Answered
        THEN /\ hist.secondary.confidence_score = Rat(85, 100)
             /\ hist.secondary.extracted_text = Trimmed(hist.vision_answer[1])
        ELSE /\ hist.secondary.confidence_score = Zero
             /\ hist.secondary.extracted_text = <<>>
             /\ hist.secondary.extracted_weight = None

\* the first annotation, "2,5 kg" and a line feed, supplies the text
C26_Witness ==
    /\ hist.secondary # None
    /\ Answered
    /\ hist.vision_answer[1] = <<"2", ",", "5", " ", "k", "g", "\n">>
    /\ hist.secondary.extracted_text = <<"2", ",", "5", " ", "k", "g">>
    /\ hist.secondary.confidence_score = Rat(85, 100)

-----------------------------------------------------------------------------
(* Properties of the bare numbers of _extract_weight_from_text *)

IsNumberChar(c) == IsDigit(c) \/ c = "."

\* the last position of the run of digits and points that holds position i
RECURSIVE RunEnd(_, _)
RunEnd(t, i) == IF i < Len(t) /\ IsNumberChar(t[i + 1]) THEN RunEnd(t, i + 1) ELSE i

\* the positions where a number stands on its own: a whole run of digits and
\* points, made of digits with at most one point after the first digits, with
\* no letter, digit or underscore touching it on either side
StandaloneStarts(t) ==
    {i \in DOMAIN t :
        /\ IsDigit(t[i])
        /\ i = 1 \/ ~(IsNumberChar(t[i - 1]) \/ IsWord(t[i - 1]))
        /\ Cardinality({j \in i..RunEnd(t, i) : t[j] = "."}) <= 1
        /\ RunEnd(t, i) = Len(t) \/ ~IsWord(t[RunEnd(t, i) + 1])}

StandaloneValue(t, i) == ParseFloat(SubSeq(t, i, RunEnd(t, i)))

\* the first standalone number within range, or None
FirstPlausibleStandalone(t) ==
    LET ok == {i \in StandaloneStarts(t) : Plausible(StandaloneValue(t, i))}
    IN  IF ok = {} THEN None ELSE StandaloneValue(t, Least(ok))

\* C27 as stated: when no pattern's first match is within range, the parser
\* returns the first of the numbers standing on their own in the text, from
\* left to right, that is within [0.1, 50.0] (null when there is none).
C27_AsStated ==
    (Parsed /\ SurvivingPatterns(Normalised(ocr_text)) = {}) =>
        parsed_weight = FirstPlausibleStandalone(Normalised(ocr_text))

-----------------------------------------------------------------------------
(* Properties of the dicts the adapters return *)

\* C28 as stated: after process_image returned, the dict each adapter returned
\* still has exactly the keys and values the adapter gave it.
C28_AsStated ==
    Returned =>
        /\ hist.primary # None => tesseract_result = hist.primary
        /\ hist.secondary # None => vision_result = hist.secondary

-----------------------------------------------------------------------------
(* Properties of the log entries *)

\* the text of the adapter result the outcome was taken from
SelectedText ==
    IF outcome.ocr_engine = "google_vision" THEN hist.secondary.extracted_text
    ELSE hist.primary.extracted_text

-----------------------------------------------------------------------------
(* Properties of the arbitration *)

\* the adapter result with the higher confidence, the primary one on a tie or
\* when the secondary engine was not called
HigherConfidence ==
    IF hist.secondary # None
           /\ RatLt(hist.primary.confidence_score, hist.secondary.confidence_score)
    THEN hist.secondary
    ELSE hist.primary

\* the adapter result that was not selected, if there are two
LowerConfidence ==
    IF hist.secondary = None THEN None
    ELSE IF HigherConfidence = hist.secondary THEN hist.primary ELSE hist.secondary

\* C30: a successful outcome has the text, the confidence, the engine tag and
\* the (re-validated) weight of one adapter result, the one with the higher
\* confidence; when that result has no weight the outcome has none, whatever
\* the other engine found.
C30_OneResultOnly ==
    (Returned /\ outcome.success) =>
        /\ outcome.extracted_text = HigherConfidence.extracted_text
        /\ outcome.confidence_score = HigherConfidence.confidence_score
        /\ outcome.ocr_engine = HigherConfidence.ocr_engine
        /\ IF HigherConfidence.extracted_weight = None
           THEN outcome.extracted_weight = None
           ELSE outcome.extracted_weight \in ValidateWeightValue(HigherConfidence.extracted_weight)

\* the primary engine read 2.5 kg with low confidence, the secondary engine was
\* selected and found no weight: the outcome has none
C30_Witness ==
    /\ Returned
    /\ outcome.success
    /\ outcome.ocr_engine = "google_vision"
    /\ LowerConfidence # None
    /\ LowerConfidence.extracted_weight = Rat(5, 2)
    /\ HigherConfidence.extracted_weight = None
    /\ HigherConfidence.extracted_text # <<>>
    /\ outcome.extracted_weight = None

====
